---- MODULE Spec2Model ----
(***************************************************************************)
(* Chapter / exercise boundary detection of tools/extract_exercises.py and *)
(* tools/split_pdf_chapters.py.                                            *)
(*                                                                         *)
(* A string is a sequence of one-character strings, a page text is the     *)
(* sequence of its lines (what str.splitlines() returns), a document is    *)
(* the sequence of its page texts plus its outline (doc.get_toc()).        *)
(***************************************************************************)
EXTENDS Integers, Sequences, FiniteSets, TLC

VARIABLES tool, toc, pages, keywords, min_num_count,
          pc, toc_starts, starts, scanned, ranges, k, detected, out, exit_code

vars == <<tool, toc, pages, keywords, min_num_count,
          pc, toc_starts, starts, scanned, ranges, k, detected, out, exit_code>>

(***************************************************************************)
(* Bounds of the explored inputs.                                          *)
(***************************************************************************)
MaxPages == 3
MaxToc == 2
MaxMinNumCount == 2

(***************************************************************************)
(* Characters and strings.                                                 *)
(***************************************************************************)
UpperLetters ==
  <<"A","B","C","D","E","F","G","H","I","J","K","L","M",
    "N","O","P","Q","R","S","T","U","V","W","X","Y","Z">>

LowerLetters ==
  <<"a","b","c","d","e","f","g","h","i","j","k","l","m",
    "n","o","p","q","r","s","t","u","v","w","x","y","z">>

Digits == <<"0","1","2","3","4","5","6","7","8","9">>

IsSpace(c) == c \in {" ", "\t"}

IsUpper(c) == \E i \in 1..26 : UpperLetters[i] = c

IsLetter(c) == \E i \in 1..26 : UpperLetters[i] = c \/ LowerLetters[i] = c

IsDigit(c) == \E i \in 1..10 : Digits[i] = c

IsWord(c) == IsLetter(c) \/ IsDigit(c) \/ c = "_"

LowerChar(c) ==
  IF IsUpper(c) THEN LowerLetters[CHOOSE i \in 1..26 : UpperLetters[i] = c] ELSE c

lower(s) == [i \in 1..Len(s) |-> LowerChar(s[i])]

startswith(s, p) == Len(p) <= Len(s) /\ SubSeq(s, 1, Len(p)) = p

StartsWithAt(s, i, p) ==
  i + Len(p) - 1 <= Len(s) /\ SubSeq(s, i, i + Len(p) - 1) = p

\* First index >= i of s that holds no whitespace (Len(s)+1 if none): \s*
SkipSpaces(s, i) ==
  LET stop == {j \in i..Len(s) : ~IsSpace(s[j])}
  IN  IF stop = {} THEN Len(s) + 1 ELSE CHOOSE j \in stop : \A m \in stop : j <= m

\* \b at position i, right after a digit
WordBoundary(s, i) == i > Len(s) \/ ~IsWord(s[i])

strip(s) ==
  LET ns == {j \in 1..Len(s) : ~IsSpace(s[j])}
  IN  IF ns = {} THEN <<>>
      ELSE SubSeq(s, CHOOSE j \in ns : \A m \in ns : j <= m,
                     CHOOSE j \in ns : \A m \in ns : j >= m)

DigitValue(c) == (CHOOSE i \in 1..10 : Digits[i] = c) - 1

RECURSIVE int(_)
int(ds) ==
  IF ds = <<>> THEN 0
  ELSE 10 * int(SubSeq(ds, 1, Len(ds) - 1)) + DigitValue(ds[Len(ds)])

RECURSIVE str(_)
str(n) ==
  IF n < 10 THEN <<Digits[n + 1]>>
  ELSE str(n \div 10) \o <<Digits[(n % 10) + 1]>>

(***************************************************************************)
(* The chapter heading patterns.  A match is the digit string of group 1,  *)
(* no match is NoMatch.                                                    *)
(***************************************************************************)
NoMatch == <<"no match">>

ChapterWord == <<"C","h","a","p","t","e","r">>

CHAPTERWord == <<"C","H","A","P","T","E","R">>

AllSpaces(s, a, b) == \A i \in a..b : IsSpace(s[i])

AllDigits(s, a, b) == \A i \in a..b : IsDigit(s[i])

WordAt(s, i, word, ignorecase) ==
  IF ignorecase THEN StartsWithAt(lower(s), i, lower(word)) ELSE StartsWithAt(s, i, word)

\* The group of a match that ends its whitespace run before g and its digit
\* run before d, NoMatch if there is no such match
Group(s, M) ==
  IF M = {} THEN NoMatch
  ELSE SubSeq(s, (CHOOSE m \in M : TRUE)[1], (CHOOSE m \in M : TRUE)[2] - 1)

\* ^\s*Chapter\s+(\d+)\b  (word compared case-insensitively when ignorecase):
\* the word after the leading whitespace, whitespace up to g (at least one),
\* digits from g up to d (at least one, as many as there are), a boundary at d
MatchChapterWord(s, word, ignorecase) ==
  Group(s, {m \in (1..(Len(s) + 1)) \X (1..(Len(s) + 1)) :
              /\ WordAt(s, SkipSpaces(s, 1), word, ignorecase)
              /\ m[1] > SkipSpaces(s, 1) + Len(word)
              /\ AllSpaces(s, SkipSpaces(s, 1) + Len(word), m[1] - 1)
              /\ m[2] > m[1]
              /\ AllDigits(s, m[1], m[2] - 1)
              /\ WordBoundary(s, m[2])})

\* ^\s*(\d+)\s+[A-Z][A-Za-z].* : digits from g up to d after the leading
\* whitespace, then whitespace (at least one), a capital and a letter
MatchNumericTitle(s) ==
  Group(s, {m \in (1..(Len(s) + 1)) \X (1..(Len(s) + 1)) :
              /\ m[1] = SkipSpaces(s, 1)
              /\ m[2] > m[1]
              /\ AllDigits(s, m[1], m[2] - 1)
              /\ \E u \in (m[2] + 1)..(Len(s) - 1) :
                   /\ AllSpaces(s, m[2], u - 1)
                   /\ IsUpper(s[u])
                   /\ IsLetter(s[u + 1])})

CHAPTER_HEADING_PATTERNS(s) ==
  <<MatchChapterWord(s, ChapterWord, TRUE),
    MatchChapterWord(s, CHAPTERWord, FALSE),
    MatchNumericTitle(s)>>

None == -1

\* The inner "for rx in PATTERNS: m = rx.match(s); if m: ... break" on the
\* results ms of the patterns: the number of the first match, None if none
FirstMatch(ms) ==
  IF \A i \in 1..Len(ms) : ms[i] = NoMatch THEN None
  ELSE int(ms[CHOOSE i \in 1..Len(ms) :
                /\ ms[i] # NoMatch
                /\ \A h \in 1..(i - 1) : ms[h] = NoMatch])

HeadingNumber(s) == FirstMatch(CHAPTER_HEADING_PATTERNS(s))

\* re.compile(rf'^\s*{ch_num}\.\d+\b').match(s)
rx_num(ch_num, s) ==
  \E d \in 1..(Len(s) + 1) :
    /\ StartsWithAt(s, SkipSpaces(s, 1), str(ch_num) \o <<".">>)
    /\ d > SkipSpaces(s, 1) + Len(str(ch_num)) + 1
    /\ AllDigits(s, SkipSpaces(s, 1) + Len(str(ch_num)) + 1, d - 1)
    /\ WordBoundary(s, d)

(***************************************************************************)
(* Configurable defaults.                                                  *)
(***************************************************************************)
DEFAULT_KEYWORDS ==
  << <<"E","x","e","r","c","i","s","e","s">>,
     <<"P","R","O","B","L","E","M","S">>,
     <<"P","r","o","b","l","e","m","s">>,
     <<"R","e","v","i","e","w"," ","E","x","e","r","c","i","s","e","s">>,
     <<"R","e","v","i","e","w"," ","Q","u","e","s","t","i","o","n","s">>,
     <<"E","x","e","r","c","i","s","e","s"," ","a","n","d"," ","P","r","o","b","l","e","m","s">> >>

TOP_LINES == 25

SCAN_TOP_LINES == 25

SPLIT_SCAN_TOP_LINES == 20

\* text.splitlines()[:n]
Take(lines, n) == SubSeq(lines, 1, IF Len(lines) < n THEN Len(lines) ELSE n)

(***************************************************************************)
(* The explored documents: page texts built from a pool of lines, outlines *)
(* built from a pool of titles.                                            *)
(***************************************************************************)
LnChapter1 == <<"C","h","a","p","t","e","r"," ","1">>

LnChapter2 == <<" ","C","H","A","P","T","E","R"," ","2">>

LnNumeric3 == <<"3"," ","S","e","t","s">>

LnExercises == <<"E","X","E","R","C","I","S","E","S">>

LnProblems == <<"P","r","o","b","l","e","m","s">>

Ln11 == <<"1",".","1"," ","S","h","o","w">>

Ln12 == <<" ","1",".","2">>

Ln21 == <<"2",".","1">>

Ln22 == <<"2",".","2"," ","x">>

Ln11a == <<"1",".","1","a">>

Blank(n) == [i \in 1..n |-> <<>>]

PgText == <<Ln11a>>

PgChapter1 == <<LnChapter1, Ln11>>

PgChapter2 == <<LnChapter2, Ln21, Ln22>>

PgNumeric3 == <<LnNumeric3>>

PgExercises == <<LnExercises>>

PgDense1 == <<Ln11, Ln12>>

\* "Chapter 1" on line 21 and "Problems" on line 26
PgLate == Blank(20) \o <<LnChapter1>> \o Blank(4) \o <<LnProblems>>

PgTwoHeadings == <<LnChapter1, LnChapter2>>

\* A page is named by its position in PageTexts; get_text is page.get_text("text")
PageTexts ==
  <<PgText, PgChapter1, PgChapter2, PgNumeric3, PgExercises, PgDense1, PgLate,
    PgTwoHeadings>>

PagePool == 1..Len(PageTexts)

get_text(p) == PageTexts[p]

KeywordSets == {DEFAULT_KEYWORDS}

\* Chapter numbers a start can carry: parsed from a title or a line of the
\* pools, or assigned by order in the outline
ChapterNumbers == 0..(MaxToc + 3)

TtChapter1 == <<"C","h","a","p","t","e","r"," ","1">>

TtChapter02 == <<" ","c","h","a","p","t","e","r"," ","0","2"," ">>

TtNumeric3 == <<"3"," ","S","e","t","s">>

TtPreface == <<"P","r","e","f","a","c","e">>

TitlePool == {TtChapter1, TtChapter02, TtNumeric3, TtPreface}

\* The number the patterns find in each title of the pool (title.strip() is
\* matched), None if no pattern matches
TitleNumber == [t \in TitlePool |-> HeadingNumber(strip(t))]

(***************************************************************************)
(* Sorting: list.sort / sorted are stable.                                 *)
(***************************************************************************)
RECURSIVE InsertByPage(_, _)
InsertByPage(x, s) ==
  IF s = <<>> THEN <<x>>
  ELSE IF s[Len(s)].sp <= x.sp THEN Append(s, x)
  ELSE Append(InsertByPage(x, SubSeq(s, 1, Len(s) - 1)), s[Len(s)])

RECURSIVE SortByPage(_)
SortByPage(s) ==
  IF s = <<>> THEN <<>>
  ELSE InsertByPage(s[Len(s)], SortByPage(SubSeq(s, 1, Len(s) - 1)))

ChPageLeq(a, b) == a.ch < b.ch \/ (a.ch = b.ch /\ a.sp <= b.sp)

RECURSIVE InsertByChPage(_, _)
InsertByChPage(x, s) ==
  IF s = <<>> THEN <<x>>
  ELSE IF ChPageLeq(s[Len(s)], x) THEN Append(s, x)
  ELSE Append(InsertByChPage(x, SubSeq(s, 1, Len(s) - 1)), s[Len(s)])

RECURSIVE SortByChPage(_)
SortByChPage(s) ==
  IF s = <<>> THEN <<>>
  ELSE InsertByChPage(s[Len(s)], SortByChPage(SubSeq(s, 1, Len(s) - 1)))

(***************************************************************************)
(* Outline-based chapter starts.  An outline entry is                      *)
(* [level, title, p1]; a chapter start is [ch, sp, title].                 *)
(***************************************************************************)
Nums(chapters) == {chapters[i].ch : i \in 1..Len(chapters)}

\* The chapter number an outline title resolves to, given the chapters
\* accepted so far: parsed from the title, else assigned by order
ResolveNumber(chapters, title) ==
  IF TitleNumber[title] = None THEN Len(chapters) + 1 ELSE TitleNumber[title]

\* One iteration of "for level, title, p1 in toc" on the accepted chapters;
\* seen_nums is the set of the numbers of the accepted chapters
TocStep_last_wins(chapters, e) ==
  LET ch_num == ResolveNumber(chapters, e.title)
      kept == SelectSeq(chapters, LAMBDA c : c.ch # ch_num)
  IN  IF e.level # 1 THEN chapters
      ELSE Append(kept, [ch |-> ch_num, sp |-> e.p1 - 1, title |-> strip(e.title)])

TocStep(chapters, e) ==
  LET ch_num == ResolveNumber(chapters, e.title)
  IN  IF e.level # 1 THEN chapters
      ELSE IF ch_num \in Nums(chapters) THEN chapters
      ELSE Append(chapters, [ch |-> ch_num, sp |-> e.p1 - 1, title |-> strip(e.title)])

RECURSIVE TocLoop(_, _)
TocLoop(t, n) ==
  IF n = 0 THEN <<>> ELSE TocStep(TocLoop(t, n - 1), t[n])

get_toc_chapter_starts_unsorted(t) ==
  IF t = <<>> THEN <<>> ELSE TocLoop(t, Len(t))

get_toc_chapter_starts(t) ==
  IF t = <<>> THEN <<>> ELSE SortByPage(TocLoop(t, Len(t)))

detect_chapters_by_toc(t) == SortByPage(TocLoop(t, Len(t)))

(***************************************************************************)
(* Scan-based chapter starts.                                              *)
(***************************************************************************)
\* The first of the top lines of a page that matches a heading pattern
\* (0 if none): the scan of a page stops at that line.
FirstHeadingLine(text, top) ==
  LET lines == Take(text, top)
      hits == {j \in 1..Len(lines) : HeadingNumber(strip(lines[j])) # None}
  IN  IF hits = {} THEN 0 ELSE CHOOSE j \in hits : \A m \in hits : j <= m

\* What the scan of each page of the pool finds in its top lines: the first
\* heading line (stripped) and its number, ch = None if there is none
PageHeading ==
  [p \in PagePool |-> [top \in {SCAN_TOP_LINES, SPLIT_SCAN_TOP_LINES} |->
     LET j == FirstHeadingLine(get_text(p), top)
         ln == strip(get_text(p)[j])
     IN  IF j = 0 THEN [ch |-> None, ln |-> <<>>]
         ELSE [ch |-> HeadingNumber(ln), ln |-> ln]]]

\* One iteration of "for i in range(doc.page_count)"; i is the page index
ScanStep_last_wins(found, p, i, top) ==
  LET h == PageHeading[p][top]
      kept == SelectSeq(found, LAMBDA c : c.ch # h.ch)
  IN  IF h.ch = None THEN found
      ELSE Append(kept, [ch |-> h.ch, sp |-> i, title |-> h.ln])

ScanStep(found, p, i, top) ==
  LET h == PageHeading[p][top]
  IN  IF h.ch = None THEN found
      ELSE IF h.ch \in Nums(found) THEN found
      ELSE Append(found, [ch |-> h.ch, sp |-> i, title |-> h.ln])

RECURSIVE ScanLoop(_, _, _)
ScanLoop(pgs, n, top) ==
  IF n = 0 THEN <<>> ELSE ScanStep(ScanLoop(pgs, n - 1, top), pgs[n], n - 1, top)

scan_for_chapter_starts(pgs) == SortByChPage(ScanLoop(pgs, Len(pgs), SCAN_TOP_LINES))

detect_chapters_by_scanning(pgs) ==
  SortByChPage(ScanLoop(pgs, Len(pgs), SPLIT_SCAN_TOP_LINES))

(***************************************************************************)
(* Range construction.  A range is [ch, sp, ep, title].                    *)
(***************************************************************************)
\* The loop shared by both tools: "for idx, (ch, sp, title) in enumerate(ss)"
RECURSIVE RangeLoop(_, _, _)
RangeLoop(ss, n, total_pages) ==
  IF n = 0 THEN <<>>
  ELSE LET s == ss[n]
           ep == IF n + 1 <= Len(ss) THEN ss[n + 1].sp - 1 ELSE total_pages - 1
           before == RangeLoop(ss, n - 1, total_pages)
       IN  IF ep >= s.sp
           THEN Append(before, [ch |-> s.ch, sp |-> s.sp, ep |-> ep, title |-> s.title])
           ELSE before

build_chapter_ranges_unsorted(ss, total_pages) ==
  RangeLoop(ss, Len(ss), total_pages)

build_chapter_ranges(ss, total_pages) ==
  IF ss = <<>> THEN <<>>
  ELSE LET starts_sorted == SortByPage(ss)
       IN  RangeLoop(starts_sorted, Len(starts_sorted), total_pages)

build_ranges(ss, total_pages) == RangeLoop(ss, Len(ss), total_pages)

(***************************************************************************)
(* Exercise boundary detection.                                            *)
(***************************************************************************)
page_has_heading(text, kws) ==
  LET lines == Take(text, TOP_LINES)
  IN  \E j \in 1..Len(lines) : \E m \in 1..Len(kws) :
        startswith(lower(strip(lines[j])), lower(kws[m]))

\* sum(1 for ln in text.splitlines() if rx_num.match(ln.strip()))
NumberingCount(text, ch_num) ==
  Cardinality({j \in 1..Len(text) : rx_num(ch_num, strip(text[j]))})

\* page_has_heading and the numbering count of each page of the pool
HasHeading ==
  [p \in PagePool |-> [kws \in KeywordSets |-> page_has_heading(get_text(p), kws)]]

Numbering ==
  [p \in PagePool |-> [ch \in ChapterNumbers |-> NumberingCount(get_text(p), ch)]]

\* pgs[i + 1] is doc.load_page(i)
detect_exercises_start_density_first(pgs, ch_range, kws, min_cnt) ==
  LET start == ch_range.sp
      end == ch_range.ep
      heads == {i \in start..end : HasHeading[pgs[i + 1]][kws]}
      dense == {i \in start..end : Numbering[pgs[i + 1]][ch_range.ch] >= min_cnt}
      i == CHOOSE x \in dense : \A y \in dense : x >= y
  IN  IF dense # {} THEN
        IF i - 1 >= start /\ HasHeading[pgs[i]][kws] THEN i - 1 ELSE i
      ELSE IF heads # {} THEN CHOOSE x \in heads : \A y \in heads : x <= y
      ELSE None

detect_exercises_start_forward_density(pgs, ch_range, kws, min_cnt) ==
  LET start == ch_range.sp
      end == ch_range.ep
      heads == {i \in start..end : HasHeading[pgs[i + 1]][kws]}
      dense == {i \in start..end : Numbering[pgs[i + 1]][ch_range.ch] >= min_cnt}
      i == CHOOSE x \in dense : \A y \in dense : x <= y
  IN  IF heads # {} THEN CHOOSE x \in heads : \A y \in heads : x <= y
      ELSE IF dense # {} THEN
        IF i - 1 >= start /\ HasHeading[pgs[i]][kws] THEN i - 1 ELSE i
      ELSE None

detect_exercises_start_any_previous_page(pgs, ch_range, kws, min_cnt) ==
  LET start == ch_range.sp
      end == ch_range.ep
      heads == {i \in start..end : HasHeading[pgs[i + 1]][kws]}
      dense == {i \in start..end : Numbering[pgs[i + 1]][ch_range.ch] >= min_cnt}
      i == CHOOSE x \in dense : \A y \in dense : x >= y
  IN  IF heads # {} THEN CHOOSE x \in heads : \A y \in heads : x <= y
      ELSE IF dense # {} THEN
        IF i - 1 >= 0 /\ HasHeading[pgs[i]][kws] THEN i - 1 ELSE i
      ELSE None

detect_exercises_start(pgs, ch_range, kws, min_cnt) ==
  LET start == ch_range.sp
      end == ch_range.ep
      heads == {i \in start..end : HasHeading[pgs[i + 1]][kws]}
      dense == {i \in start..end : Numbering[pgs[i + 1]][ch_range.ch] >= min_cnt}
      i == CHOOSE x \in dense : \A y \in dense : x >= y
  IN  IF heads # {} THEN CHOOSE x \in heads : \A y \in heads : x <= y
      ELSE IF dense # {} THEN
        IF i - 1 >= start /\ HasHeading[pgs[i]][kws] THEN i - 1 ELSE i
      ELSE None

Docs == UNION {[1..n -> PagePool] : n \in 1..MaxPages}

FixedDocs == {<<2, 6, 5>>, <<1>>}

\* Outline entries of a document of T pages: level-1 entries with any title
\* and a target page 1..T, or T+1 for a destination past the last page, and
\* one nested (level 2) entry.
TocEntries(T) ==
  {[level |-> 1, title |-> t, p1 |-> p] : t \in TitlePool, p \in 1..(T + 1)}
    \cup {[level |-> 2, title |-> TtNumeric3, p1 |-> 1]}

Tocs(T) == UNION {[1..n -> TocEntries(T)] : n \in 0..MaxToc}

FixedTocs(T) ==
  { <<>>,
    <<[level |-> 1, title |-> TtChapter1, p1 |-> 1],
      [level |-> 1, title |-> TtChapter02, p1 |-> T]>> }

Tools == {"extract_exercises", "split_pdf_chapters"}

(***************************************************************************)
(* State after argument parsing and fitz.open().                           *)
(***************************************************************************)
Init ==
  /\ tool \in Tools
  /\ \/ /\ pages \in Docs
        /\ toc \in FixedTocs(Len(pages))
        /\ IF tool = "extract_exercises"
           THEN min_num_count \in 1..MaxMinNumCount
           ELSE min_num_count = 2
     \/ /\ pages \in FixedDocs
        /\ toc \in Tocs(Len(pages))
        /\ min_num_count = 2
  /\ keywords \in KeywordSets
  /\ pc = "toc"
  /\ toc_starts = <<>>
  /\ starts = <<>>
  /\ scanned = FALSE
  /\ ranges = <<>>
  /\ k = 0
  /\ detected = <<>>
  /\ out = <<>>
  /\ exit_code = None

(***************************************************************************)
(* The steps of main().                                                    *)
(***************************************************************************)
\* starts = get_toc_chapter_starts(doc) / detect_chapters_by_toc(doc)
GetTocStarts ==
  /\ pc = "toc"
  /\ starts' = IF tool = "extract_exercises" THEN get_toc_chapter_starts(toc)
                                             ELSE detect_chapters_by_toc(toc)
  /\ toc_starts' = starts'
  /\ pc' = "fallback"
  /\ UNCHANGED <<tool, toc, pages, keywords, min_num_count, scanned, ranges, k,
                 detected, out, exit_code>>

\* if len(starts) < 2: starts = scan_for_chapter_starts(doc)
ScanFallback_only_when_empty ==
  /\ pc = "fallback"
  /\ IF Len(starts) < 1
     THEN /\ starts' = IF tool = "extract_exercises"
                       THEN scan_for_chapter_starts(pages)
                       ELSE detect_chapters_by_scanning(pages)
          /\ scanned' = TRUE
     ELSE UNCHANGED <<starts, scanned>>
  /\ pc' = "check"
  /\ UNCHANGED <<tool, toc, pages, keywords, min_num_count, toc_starts, ranges, k,
                 detected, out, exit_code>>

ScanFallback ==
  /\ pc = "fallback"
  /\ IF Len(starts) < 2
     THEN /\ starts' = IF tool = "extract_exercises"
                       THEN scan_for_chapter_starts(pages)
                       ELSE detect_chapters_by_scanning(pages)
          /\ scanned' = TRUE
     ELSE UNCHANGED <<starts, scanned>>
  /\ pc' = "check"
  /\ UNCHANGED <<tool, toc, pages, keywords, min_num_count, toc_starts, ranges, k,
                 detected, out, exit_code>>

StartsSettled == pc = "check"

\* if not starts: sys.exit(...)
ExitNoStarts ==
  /\ StartsSettled
  /\ starts = <<>>
  /\ pc' = "exit"
  /\ exit_code' = IF tool = "extract_exercises" THEN 2 ELSE 1
  /\ UNCHANGED <<tool, toc, pages, keywords, min_num_count, toc_starts, starts,
                 scanned, ranges, k, detected, out>>

\* ranges = build_chapter_ranges(starts, doc.page_count) / build_ranges(...);
\* extract_exercises exits with 3 when there is no range
BuildRanges ==
  /\ StartsSettled
  /\ starts # <<>>
  /\ ranges' = IF tool = "extract_exercises"
               THEN build_chapter_ranges(starts, Len(pages))
               ELSE build_ranges(starts, Len(pages))
  /\ IF tool = "extract_exercises" /\ ranges' = <<>>
     THEN pc' = "exit" /\ exit_code' = 3 /\ k' = k
     ELSE pc' = "loop" /\ exit_code' = exit_code /\ k' = 1
  /\ UNCHANGED <<tool, toc, pages, keywords, min_num_count, toc_starts, starts,
                 scanned, detected, out>>

\* One iteration of "for ch_num, sp, ep, title in ranges" of extract_exercises
ExtractChapter_break ==
  /\ pc = "loop"
  /\ tool = "extract_exercises"
  /\ k <= Len(ranges)
  /\ LET r == ranges[k]
         ex_start == detect_exercises_start(pages, r, keywords, min_num_count)
     IN  /\ detected' = Append(detected, ex_start)
         /\ out' = IF ex_start = None THEN out
                   ELSE Append(out, [ch |-> r.ch, first |-> ex_start, last |-> r.ep])
         /\ k' = IF ex_start = None THEN Len(ranges) + 1 ELSE k + 1
  /\ UNCHANGED <<tool, toc, pages, keywords, min_num_count, pc, toc_starts, starts,
                 scanned, ranges, exit_code>>

ExtractChapter ==
  /\ pc = "loop"
  /\ tool = "extract_exercises"
  /\ k <= Len(ranges)
  /\ LET r == ranges[k]
         ex_start == detect_exercises_start(pages, r, keywords, min_num_count)
     IN  /\ detected' = Append(detected, ex_start)
         /\ out' = IF ex_start = None THEN out
                   ELSE Append(out, [ch |-> r.ch, first |-> ex_start, last |-> r.ep])
  /\ k' = k + 1
  /\ UNCHANGED <<tool, toc, pages, keywords, min_num_count, pc, toc_starts, starts,
                 scanned, ranges, exit_code>>

\* One iteration of "for chn, sp, ep, title in ranges" of split_pdf_chapters
SplitChapter ==
  /\ pc = "loop"
  /\ tool = "split_pdf_chapters"
  /\ k <= Len(ranges)
  /\ LET r == ranges[k]
     IN  out' = Append(out, [ch |-> r.ch, first |-> r.sp, last |-> r.ep])
  /\ k' = k + 1
  /\ UNCHANGED <<tool, toc, pages, keywords, min_num_count, pc, toc_starts, starts,
                 scanned, ranges, detected, exit_code>>

\* doc.close() and normal return
Finish ==
  /\ pc = "loop"
  /\ k > Len(ranges)
  /\ pc' = "done"
  /\ exit_code' = 0
  /\ UNCHANGED <<tool, toc, pages, keywords, min_num_count, toc_starts, starts,
                 scanned, ranges, k, detected, out>>

Next ==
  \/ GetTocStarts
  \/ ScanFallback
  \/ ExitNoStarts
  \/ BuildRanges
  \/ ExtractChapter
  \/ SplitChapter
  \/ Finish

Spec == Init /\ [][Next]_vars

(***************************************************************************)
(* Vocabulary of the properties.                                           *)
(***************************************************************************)
TotalPages == Len(pages)

MinOf(S) == CHOOSE x \in S : \A y \in S : x <= y

MaxOf(S) == CHOOSE x \in S : \A y \in S : x >= y

RangesBuilt == pc \in {"loop", "done"} \/ (pc = "exit" /\ exit_code = 3)

StartPages == {starts[i].sp : i \in 1..Len(starts)}

StartsInDocument == \A i \in 1..Len(starts) : starts[i].sp \in 0..(TotalPages - 1)

Level1 == {i \in 1..Len(toc) : toc[i].level = 1}

Parsed(i) == TitleNumber[toc[i].title]

\* The number entry i of the outline resolves to when the loop reaches it
Resolved(i) == ResolveNumber(TocLoop(toc, i - 1), toc[i].title)

WithNumber(ss, n) == {i \in 1..Len(ss) : ss[i].ch = n}

SortedByPage(ss) == \A i \in 1..(Len(ss) - 1) : ss[i].sp <= ss[i + 1].sp

KeywordOnTop(i) == HasHeading[pages[i + 1]][keywords]

DensePage(i, n) == Numbering[pages[i + 1]][n] >= min_num_count

HeadingPages(r) == {i \in r.sp..r.ep : KeywordOnTop(i)}

DensePages(r) == {i \in r.sp..r.ep : DensePage(i, r.ch)}

(***************************************************************************)
(* C1: in extract_exercises, when every start page lies in [0, T-1], the   *)
(* ranges of build_chapter_ranges, in page order, partition the pages from *)
(* the lowest start page to T-1: each has start <= end, the first starts   *)
(* at the lowest start page, each ends one page before the next starts,    *)
(* the last ends at T-1.                                                   *)
(***************************************************************************)
C1_RangesPartition ==
  (tool = "extract_exercises" /\ RangesBuilt /\ StartsInDocument) =>
    /\ ranges # <<>>
    /\ \A i \in 1..Len(ranges) : ranges[i].sp <= ranges[i].ep
    /\ ranges[1].sp = MinOf(StartPages)
    /\ \A i \in 1..(Len(ranges) - 1) : ranges[i].ep + 1 = ranges[i + 1].sp
    /\ ranges[Len(ranges)].ep = TotalPages - 1

\* Starts that are not in page order (scan result) were turned into ranges
C1_Witness ==
  /\ tool = "extract_exercises" /\ pc = "done" /\ StartsInDocument
  /\ Len(starts) >= 2
  /\ starts[1].sp > starts[2].sp
  /\ Len(ranges) >= 2

(***************************************************************************)
(* C2: when the N level-1 entries of the outline all have titles that      *)
(* parse to a chapter number and the N numbers are pairwise distinct, the  *)
(* outline strategy returns exactly N starts, sorted by ascending page     *)
(* index, one per entry with the number parsed from the entry's title and  *)
(* page index p1 - 1; entries of other levels contribute nothing.          *)
(***************************************************************************)
AllParseDistinct ==
  /\ \A i \in Level1 : Parsed(i) # None
  /\ \A i, j \in Level1 : i # j => Parsed(i) # Parsed(j)

C2_OutlineStarts ==
  (pc = "fallback" /\ AllParseDistinct) =>
    /\ Len(toc_starts) = Cardinality(Level1)
    /\ SortedByPage(toc_starts)
    /\ \A i \in Level1 : \E m \in 1..Len(toc_starts) :
         /\ toc_starts[m].ch = Parsed(i)
         /\ toc_starts[m].sp = toc[i].p1 - 1

\* Two parseable level-1 entries listed against page order, plus the cases
\* where an entry of another level sits in the outline
C2_Witness ==
  /\ pc = "fallback" /\ AllParseDistinct
  /\ Cardinality(Level1) = 2
  /\ toc[1].p1 > toc[2].p1
  /\ Len(toc_starts) = 2

(***************************************************************************)
(* C3 as stated: when two level-1 entries resolve to the same chapter      *)
(* number, exactly one start with that number is retained and it is the    *)
(* one with the lowest page index of the two.                              *)
(***************************************************************************)
C3_LowestPageRetained ==
  pc = "fallback" =>
    \A i, j \in Level1 :
      (i < j /\ Resolved(i) = Resolved(j)) =>
        /\ Cardinality(WithNumber(toc_starts, Resolved(i))) = 1
        /\ \A m \in WithNumber(toc_starts, Resolved(i)) :
             toc_starts[m].sp = MinOf({toc[i].p1, toc[j].p1}) - 1

(***************************************************************************)
(* C3 amended: when two level-1 entries resolve to the same chapter        *)
(* number, exactly one start with that number is retained and it is the    *)
(* one of the first entry, in outline order, that resolves to that number, *)
(* whatever the page indices.                                              *)
(***************************************************************************)
FirstResolving(n) == MinOf({i \in Level1 : Resolved(i) = n})

C3_FirstInOutlineRetained ==
  pc = "fallback" =>
    \A i, j \in Level1 :
      (i < j /\ Resolved(i) = Resolved(j)) =>
        /\ Cardinality(WithNumber(toc_starts, Resolved(i))) = 1
        /\ \A m \in WithNumber(toc_starts, Resolved(i)) :
             /\ toc_starts[m].sp = toc[FirstResolving(Resolved(i))].p1 - 1
             /\ toc_starts[m].title = strip(toc[FirstResolving(Resolved(i))].title)

\* A duplicate whose first occurrence in the outline is on the later page
C3_Witness ==
  /\ pc = "fallback"
  /\ \E i, j \in Level1 :
       /\ i < j /\ Resolved(i) = Resolved(j)
       /\ toc[i].p1 > toc[j].p1
       /\ toc[i].title # toc[j].title

(***************************************************************************)
(* C4: tier 1 of detect_exercises_start: when some page of the chapter     *)
(* range has, within its first 25 lines, a line that begins                *)
(* (case-insensitively) with a keyword, the lowest such page index is      *)
(* returned, whatever the later pages hold.                                *)
(***************************************************************************)
C4_FirstHeadingPage ==
  \A m \in 1..Len(detected) :
    HeadingPages(ranges[m]) # {} => detected[m] = MinOf(HeadingPages(ranges[m]))

\* A heading page followed, in the same range, by a page with dense numbering
C4_Witness ==
  \E m \in 1..Len(detected) :
    /\ HeadingPages(ranges[m]) # {}
    /\ DensePages(ranges[m]) # {}
    /\ MaxOf(DensePages(ranges[m])) > MinOf(HeadingPages(ranges[m]))
    /\ detected[m] = MinOf(HeadingPages(ranges[m]))

(***************************************************************************)
(* C5 as stated: tier 2, for a chapter n whose range has no keyword        *)
(* heading: the page selected is the highest page of the range with at     *)
(* least min_num_count lines "n.<digits>", and if the page immediately     *)
(* before that page has a keyword heading, that earlier page is returned.  *)
(***************************************************************************)
C5_PreviousPagePreferred ==
  \A m \in 1..Len(detected) :
    (HeadingPages(ranges[m]) = {} /\ DensePages(ranges[m]) # {}) =>
      LET i == MaxOf(DensePages(ranges[m]))
      IN  detected[m] = IF i - 1 >= 0 /\ KeywordOnTop(i - 1) THEN i - 1 ELSE i

(***************************************************************************)
(* C5 amended: tier 2, for a chapter n whose range has no keyword heading: *)
(* the page selected is the highest page of the range with at least        *)
(* min_num_count lines "n.<digits>", and if the page immediately before    *)
(* that page lies in the chapter's range and has a keyword heading, that   *)
(* earlier page is returned; a page before the range is never returned.    *)
(***************************************************************************)
C5_PreviousPageInRange ==
  \A m \in 1..Len(detected) :
    (HeadingPages(ranges[m]) = {} /\ DensePages(ranges[m]) # {}) =>
      LET i == MaxOf(DensePages(ranges[m]))
      IN  detected[m] =
            IF i - 1 >= ranges[m].sp /\ KeywordOnTop(i - 1) THEN i - 1 ELSE i

\* Tier 2 chose the first page of a range while the page before the range
\* carries a keyword heading
C5_Witness ==
  \E m \in 1..Len(detected) :
    /\ HeadingPages(ranges[m]) = {} /\ DensePages(ranges[m]) # {}
    /\ MaxOf(DensePages(ranges[m])) = ranges[m].sp
    /\ ranges[m].sp > 0
    /\ KeywordOnTop(ranges[m].sp - 1)
    /\ detected[m] = ranges[m].sp

(***************************************************************************)
(* C6: in the main loop of extract_exercises a chapter range without any   *)
(* keyword heading and without any page reaching min_num_count numbering   *)
(* lines yields no exercise start and no output file, the run does not     *)
(* exit because of it, and every other range that has a detectable start   *)
(* has its file [exercise_start, chapter_end] emitted, before or after the *)
(* skipped one.                                                            *)
(***************************************************************************)
Detectable(r) == HeadingPages(r) # {} \/ DensePages(r) # {}

FilesOf(n) == {i \in 1..Len(out) : out[i].ch = n}

C6_SkipAndContinue ==
  (tool = "extract_exercises" /\ pc \in {"loop", "done"}) =>
    /\ exit_code \in {None, 0}
    /\ pc = "done" => Len(detected) = Len(ranges)
    /\ \A m \in 1..Len(detected) :
         IF Detectable(ranges[m])
         THEN \E i \in FilesOf(ranges[m].ch) :
                /\ out[i].first = detected[m]
                /\ out[i].first \in ranges[m].sp..ranges[m].ep
                /\ out[i].last = ranges[m].ep
         ELSE detected[m] = None /\ FilesOf(ranges[m].ch) = {}

\* A skipped chapter with an emitted chapter before it and one after it
C6_Witness ==
  /\ tool = "extract_exercises" /\ pc = "done"
  /\ \E a, b, c \in 1..Len(detected) :
       /\ a < b /\ b < c
       /\ detected[a] # None /\ detected[b] = None /\ detected[c] # None
       /\ ~Detectable(ranges[b])
  /\ Len(out) = 2

(***************************************************************************)
(* C7 as stated: in both tools the run ends with the fatal                 *)
(* no-chapter-structure exit, without output, if and only if neither the   *)
(* outline strategy nor the scan strategy detects any chapter start; the   *)
(* scan result replaces the outline result exactly when the outline        *)
(* strategy yields fewer than 2 starts.                                    *)
(***************************************************************************)
Decided == pc \in {"exit", "loop", "done"}

FatalNoStructure ==
  pc = "exit" /\ exit_code = (IF tool = "extract_exercises" THEN 2 ELSE 1)

ScanResult ==
  IF tool = "extract_exercises" THEN scan_for_chapter_starts(pages)
                                ELSE detect_chapters_by_scanning(pages)

C7_FatalIffNeitherDetects ==
  Decided =>
    /\ FatalNoStructure <=> (toc_starts = <<>> /\ ScanResult = <<>>)
    /\ FatalNoStructure => out = <<>>
    /\ scanned <=> Len(toc_starts) < 2

(***************************************************************************)
(* C7 amended: in both tools the run ends with the fatal                   *)
(* no-chapter-structure exit, without output, if and only if the outline   *)
(* strategy yields fewer than 2 starts and the scan strategy detects no    *)
(* chapter start; the scan result replaces the outline result exactly when *)
(* the outline strategy yields fewer than 2 starts.                        *)
(***************************************************************************)
C7_FatalIffScanEmpty ==
  Decided =>
    /\ FatalNoStructure <=> (Len(toc_starts) < 2 /\ ScanResult = <<>>)
    /\ FatalNoStructure => out = <<>>
    /\ scanned <=> Len(toc_starts) < 2
    /\ starts = IF Len(toc_starts) < 2 THEN ScanResult ELSE toc_starts

\* The fatal exit of a document whose outline declares one chapter
C7_Witness ==
  /\ FatalNoStructure
  /\ Len(toc_starts) = 1
  /\ scanned

(***************************************************************************)
(* C8: whenever detect_exercises_start returns a page index i for a        *)
(* chapter range (n, start, end), start <= i <= end, so every emitted      *)
(* exercise interval [i, end] is a non-empty part of its chapter's range,  *)
(* and the intervals emitted for different chapters are pairwise disjoint. *)
(***************************************************************************)
C8_ExerciseIntervals ==
  tool = "extract_exercises" =>
    /\ \A m \in 1..Len(detected) :
         detected[m] # None =>
           /\ ranges[m].sp <= detected[m] /\ detected[m] <= ranges[m].ep
           /\ \E i \in 1..Len(out) :
                out[i] = [ch |-> ranges[m].ch, first |-> detected[m],
                          last |-> ranges[m].ep]
    /\ \A i \in 1..Len(out) : out[i].first <= out[i].last
    /\ \A i, j \in 1..Len(out) :
         i # j => (out[i].last < out[j].first \/ out[j].last < out[i].first)

\* Two emitted intervals, one starting inside its range and one found by
\* tier 2 on the first page of a range that follows a keyword page
C8_Witness ==
  /\ tool = "extract_exercises" /\ pc = "done"
  /\ Len(out) >= 2
  /\ \E m \in 1..Len(detected) : detected[m] # None /\ detected[m] > ranges[m].sp
  /\ \E m \in 1..Len(detected) :
       /\ detected[m] = ranges[m].sp /\ ranges[m].sp > 0
       /\ HeadingPages(ranges[m]) = {}
       /\ KeywordOnTop(ranges[m].sp - 1)

(***************************************************************************)
(* C9 as stated: scan strategy: for every chapter number n that appears in *)
(* a heading-pattern line within the inspected leading lines of at least   *)
(* one page, the result has exactly one start for n, on the lowest page    *)
(* whose leading lines contain a heading-pattern line with number n; the   *)
(* result is sorted by chapter number.                                     *)
(***************************************************************************)
ScanTop == IF tool = "extract_exercises" THEN SCAN_TOP_LINES ELSE SPLIT_SCAN_TOP_LINES

\* The heading number (or None) of each inspected line of each page of the pool
TopLineNumbers ==
  [p \in PagePool |-> [top \in {SCAN_TOP_LINES, SPLIT_SCAN_TOP_LINES} |->
     [j \in 1..Len(Take(get_text(p), top)) |-> HeadingNumber(strip(get_text(p)[j]))]]]

TopLinesOf(i) == TopLineNumbers[pages[i + 1]][ScanTop]

\* The pages (indices) with a heading-pattern line numbered n in the top lines
PagesShowing(n) ==
  {i \in 0..(TotalPages - 1) : \E j \in 1..Len(TopLinesOf(i)) : TopLinesOf(i)[j] = n}

\* The pages whose first heading-pattern line in the top lines is numbered n
PagesHeaded(n) ==
  {i \in 0..(TotalPages - 1) :
     \E j \in 1..Len(TopLinesOf(i)) :
       /\ TopLinesOf(i)[j] = n
       /\ \A h \in 1..(j - 1) : TopLinesOf(i)[h] = None}

SortedByNumber(ss) == \A i \in 1..(Len(ss) - 1) : ss[i].ch < ss[i + 1].ch

C9_EveryHeadingLine ==
  (pc = "check" /\ scanned) =>
    /\ \A n \in ChapterNumbers :
         PagesShowing(n) # {} =>
           /\ Cardinality(WithNumber(starts, n)) = 1
           /\ \A m \in WithNumber(starts, n) : starts[m].sp = MinOf(PagesShowing(n))
    /\ SortedByNumber(starts)

(***************************************************************************)
(* C9 amended: scan strategy: for every chapter number n that is the       *)
(* number of the first heading-pattern line within the inspected leading   *)
(* lines of at least one page, the result has exactly one start for n, on  *)
(* the lowest page whose first heading-pattern line has number n; the      *)
(* result is sorted by chapter number.                                     *)
(***************************************************************************)
C9_FirstHeadingLine ==
  (pc = "check" /\ scanned) =>
    /\ \A n \in ChapterNumbers :
         PagesHeaded(n) # {} =>
           /\ Cardinality(WithNumber(starts, n)) = 1
           /\ \A m \in WithNumber(starts, n) : starts[m].sp = MinOf(PagesHeaded(n))
    /\ SortedByNumber(starts)

\* A number headed on two pages, and a second heading line on a page that
\* the scan does not record
C9_Witness ==
  /\ pc = "check" /\ scanned
  /\ \E n \in ChapterNumbers : Cardinality(PagesHeaded(n)) >= 2
  /\ \E n \in ChapterNumbers : PagesShowing(n) # {} /\ WithNumber(starts, n) = {}
  /\ Len(starts) >= 1

(***************************************************************************)
(* C10: split_pdf_chapters: for either detection strategy, the ranges      *)
(* produced by build_ranges and emitted by main are pairwise               *)
(* non-overlapping and each range ends one page before the start of the    *)
(* chapter that follows it in page order, or at the last page of the       *)
(* document.                                                               *)
(***************************************************************************)
LaterStartPages(r) == {p \in StartPages : p > r.sp}

C10_SplitRangesDisjoint ==
  (tool = "split_pdf_chapters" /\ pc \in {"loop", "done"}) =>
    /\ \A i, j \in 1..Len(ranges) :
         i # j => (ranges[i].ep < ranges[j].sp \/ ranges[j].ep < ranges[i].sp)
    /\ \A i \in 1..Len(ranges) :
         ranges[i].ep = IF LaterStartPages(ranges[i]) = {} THEN TotalPages - 1
                        ELSE MinOf(LaterStartPages(ranges[i])) - 1
    /\ \A i \in 1..Len(out) :
         out[i] = [ch |-> ranges[i].ch, first |-> ranges[i].sp, last |-> ranges[i].ep]

(***************************************************************************)
(* C11: outline strategy with mixed titles: the retained chapter numbers   *)
(* are pairwise distinct; a level-1 entry is dropped as a duplicate only   *)
(* when an earlier level-1 entry has the same chapter number in its title; *)
(* and an entry whose title parses to n is retained (with page index       *)
(* p1 - 1) when no earlier level-1 title parses to n, even if earlier      *)
(* entries had unparseable titles and took sequential fallback numbers.    *)
(***************************************************************************)
Dropped(i) == Len(TocLoop(toc, i)) = Len(TocLoop(toc, i - 1))

EarlierTitled(i, n) == {j \in Level1 : j < i /\ Parsed(j) # None /\ Parsed(j) = n}

C11_DroppedOnlyForEarlierTitle ==
  pc = "fallback" =>
    /\ \A m, n \in 1..Len(toc_starts) : m # n => toc_starts[m].ch # toc_starts[n].ch
    /\ \A i \in Level1 : Dropped(i) => EarlierTitled(i, Resolved(i)) # {}
    /\ \A i \in Level1 :
         (Parsed(i) # None /\ EarlierTitled(i, Parsed(i)) = {}) =>
           \E m \in 1..Len(toc_starts) :
             /\ toc_starts[m].ch = Parsed(i)
             /\ toc_starts[m].sp = toc[i].p1 - 1
             /\ toc_starts[m].title = strip(toc[i].title)

====
